---- MODULE Spec2Model ----
(***************************************************************************)
(* Model of src/texture.rs: the 4x4 cofactor inverse `inverse`, and the    *)
(* construction calls Texture::from_bytes / Texture::from_image with the   *)
(* device and queue operations they issue.                                 *)
(*                                                                         *)
(* f32 values are modelled bit-exactly (IEEE-754 binary32, round to        *)
(* nearest, ties to even) as records                                       *)
(*      [k |-> "fin" | "inf" | "nan", s |-> sign, m |-> mantissa,          *)
(*       e |-> exponent]                                                   *)
(* standing for (-1)^s * m * 2^e.  A finite value is kept canonical:       *)
(* either 2^23 <= m < 2^24 and -149 <= e <= 104 (normal), or e = -149 and  *)
(* 0 < m < 2^23 (subnormal), or m = 0 and e = 0 (a signed zero).           *)
(***************************************************************************)
EXTENDS Integers, Sequences, FiniteSets, TLC

VARIABLES
    a,          \* SpecInverse: the argument matrix handed to inverse
    out,        \* SpecInverse: Pending, or the Option returned by inverse
    bitmap,     \* the value of the local m of from_image (lines 221-226)
    nextId,     \* the next fresh resource handle of the device
    ops,        \* device and queue operations issued so far, in order
    calls,      \* the construction calls made, each with its outcome
    bundles     \* the Texture bundles returned to callers, in order

vars == <<a, out, bitmap, nextId, ops, calls, bundles>>

----------------------------------------------------------------------------
(* f32 *)

F32NaN == [k |-> "nan", s |-> 0, m |-> 0, e |-> 0]

F32Inf(s) == [k |-> "inf", s |-> s, m |-> 0, e |-> 0]

F32Zero(s) == [k |-> "fin", s |-> s, m |-> 0, e |-> 0]

IsZero(x) == x.k = "fin" /\ x.m = 0

Xor(s, t) == IF s = t THEN 0 ELSE 1

RECURSIVE BitLen(_)
BitLen(n) == IF n = 0 THEN 0 ELSE 1 + BitLen(n \div 2)

\* (-1)^s * (n + f) * 2^e, where 0 <= n < 2^31 and f = 0 when st = 0 and
\* 0 < f < 1 when st = 1 (n then has at least 26 bits), rounded to the
\* nearest f32, ties to even; overflow gives an infinity.
F32Round(s, n, e, st) ==
    IF n = 0 /\ st = 0 THEN F32Zero(s)
    ELSE
    LET len == BitLen(n)
        sh0 == len - 24
        sh  == IF e + sh0 < -149 THEN -149 - e ELSE sh0
        ex  == e + sh
    IN  IF sh <= 0
        THEN (IF ex > 104 THEN F32Inf(s) ELSE [k |-> "fin", s |-> s, m |-> n * 2^(-sh), e |-> ex])
        ELSE IF sh > 31 THEN F32Zero(s)
        ELSE
        LET q    == IF sh = 31 THEN 0 ELSE n \div 2^sh
            r    == IF sh = 31 THEN n ELSE n % 2^sh
            half == 2^(sh - 1)
            up   == r > half \/ (r = half /\ (st = 1 \/ q % 2 = 1))
            q1   == IF up THEN q + 1 ELSE q
            q2   == IF q1 = 2^24 THEN 2^23 ELSE q1
            ex2  == IF q1 = 2^24 THEN ex + 1 ELSE ex
        IN  IF q2 = 0 THEN F32Zero(s)
            ELSE IF ex2 > 104 THEN F32Inf(s)
            ELSE [k |-> "fin", s |-> s, m |-> q2, e |-> ex2]

\* unary minus
F32Neg(x) == IF x.k = "nan" THEN x ELSE [x EXCEPT !.s = 1 - x.s]

\* a finite non-zero value with its mantissa shifted up to 24 bits
Normalized(x) ==
    LET d == 24 - BitLen(x.m)
    IN  [x EXCEPT !.m = x.m * 2^d, !.e = x.e - d]

\* x * y
F32Mul(x, y) ==
    IF x.k = "nan" \/ y.k = "nan" THEN F32NaN
    ELSE IF x.k = "inf" \/ y.k = "inf"
    THEN (IF IsZero(x) \/ IsZero(y) THEN F32NaN ELSE F32Inf(Xor(x.s, y.s)))
    ELSE IF x.m = 0 \/ y.m = 0 THEN F32Zero(Xor(x.s, y.s))
    ELSE
    LET nx  == Normalized(x)
        ny  == Normalized(y)
        xh  == nx.m \div 4096
        xl  == nx.m % 4096
        yh  == ny.m \div 4096
        yl  == ny.m % 4096
        mid == xh * yl + xl * yh
        low == xl * yl + (mid % 4096) * 4096
        lo  == low % 2^24
        hi  == xh * yh + (mid \div 4096) + (low \div 2^24)
    IN  F32Round(Xor(x.s, y.s), hi * 64 + (lo \div 2^18), nx.e + ny.e + 18,
                 IF lo % 2^18 = 0 THEN 0 ELSE 1)

\* x + y
F32Add(x, y) ==
    IF x.k = "nan" \/ y.k = "nan" THEN F32NaN
    ELSE IF x.k = "inf"
    THEN (IF y.k = "inf" /\ y.s # x.s THEN F32NaN ELSE x)
    ELSE IF y.k = "inf" THEN y
    ELSE IF x.m = 0 /\ y.m = 0 THEN F32Zero(IF x.s = 1 /\ y.s = 1 THEN 1 ELSE 0)
    ELSE IF x.m = 0 THEN y
    ELSE IF y.m = 0 THEN x
    ELSE
    LET big == IF x.e >= y.e THEN x ELSE y
        sml == IF x.e >= y.e THEN y ELSE x
        d   == big.e - sml.e
        X   == big.m * 64
        Y   == IF d >= 31 THEN 0 ELSE (sml.m * 64) \div 2^d
        st  == IF d >= 31 THEN 1 ELSE IF (sml.m * 64) % 2^d = 0 THEN 0 ELSE 1
    IN  IF big.s # sml.s /\ st = 0 /\ X = Y THEN F32Zero(0)
        ELSE F32Round(IF big.s = sml.s \/ st = 1 \/ X > Y THEN big.s ELSE sml.s,
                      IF big.s = sml.s THEN X + Y
                      ELSE IF st = 1 THEN X - Y - 1
                      ELSE IF X > Y THEN X - Y
                      ELSE Y - X,
                      big.e - 6, st)

\* x - y
F32Sub(x, y) == F32Add(x, F32Neg(y))

\* n quotient bits of r / d by long division (r < d * 2): <<quotient, remainder>>
RECURSIVE LongDiv(_, _, _, _)
LongDiv(r, d, n, q) ==
    IF n = 0 THEN <<q, r>>
    ELSE IF r >= d THEN LongDiv((r - d) * 2, d, n - 1, q * 2 + 1)
    ELSE LongDiv(r * 2, d, n - 1, q * 2)

\* x / y
F32Div(x, y) ==
    IF x.k = "nan" \/ y.k = "nan" THEN F32NaN
    ELSE IF x.k = "inf"
    THEN (IF y.k = "inf" THEN F32NaN ELSE F32Inf(Xor(x.s, y.s)))
    ELSE IF y.k = "inf" THEN F32Zero(Xor(x.s, y.s))
    ELSE IF y.m = 0
    THEN (IF x.m = 0 THEN F32NaN ELSE F32Inf(Xor(x.s, y.s)))
    ELSE IF x.m = 0 THEN F32Zero(Xor(x.s, y.s))
    ELSE
    LET nx == Normalized(x)
        ny == Normalized(y)
        qr == LongDiv(nx.m, ny.m, 28, 0)
    IN  F32Round(Xor(x.s, y.s), qr[1], nx.e - ny.e - 27, IF qr[2] = 0 THEN 0 ELSE 1)

\* x == y of IEEE-754: a NaN equals nothing, the two zeros are equal
F32Eq(x, y) ==
    /\ x.k # "nan"
    /\ y.k # "nan"
    /\ \/ x = y
       \/ IsZero(x) /\ IsZero(y)

\* n as f32, for 0 <= n < 2^31
F32FromInt(n) == F32Round(IF n < 0 THEN 1 ELSE 0, IF n < 0 THEN -n ELSE n, 0, 0)

\* a decimal fraction 0.d1 d2 ... dn doubled: <<integer carry, the fraction's digits>>
RECURSIVE DoubleDigits(_, _, _)
DoubleDigits(d, i, c) ==
    IF i = 0 THEN <<c, d>>
    ELSE LET v == 2 * d[i] + c
         IN  DoubleDigits([d EXCEPT ![i] = v % 10], i - 1, v \div 10)

\* the binary expansion of 0.d1 d2 ... dn, 26 bits from its first 1 bit on, then
\* rounded: n holds the len bits found so far, the last of weight 2^e
RECURSIVE FractionBits(_, _, _, _)
FractionBits(d, n, len, e) ==
    IF len = 26
    THEN F32Round(0, n, e, IF \A i \in 1..Len(d) : d[i] = 0 THEN 0 ELSE 1)
    ELSE LET r == DoubleDigits(d, Len(d), 0)
         IN  FractionBits(r[2], 2 * n + r[1],
                          IF len > 0 \/ r[1] = 1 THEN len + 1 ELSE 0, e - 1)

\* the f32 literal 0.d1 d2 ... dn (the decimal parsed to the nearest f32)
F32Literal(d) ==
    IF \A i \in 1..Len(d) : d[i] = 0 THEN F32Zero(0) ELSE FractionBits(d, 0, 0, 0)

\* the four bytes of x.to_le_bytes(); a NaN is the canonical quiet NaN
F32ToLeBytes(x) ==
    LET biased == IF x.k # "fin" THEN 255
                  ELSE IF x.m < 2^23 THEN 0 ELSE x.e + 150
        frac   == IF x.k = "nan" THEN 2^22
                  ELSE IF x.k = "inf" THEN 0
                  ELSE IF x.m < 2^23 THEN x.m ELSE x.m - 2^23
    IN  << frac % 256,
           (frac \div 256) % 256,
           (biased % 2) * 128 + (frac \div 65536),
           x.s * 128 + (biased \div 2) >>

\* the two bytes of a u16, little-endian
U16ToLeBytes(n) == << n % 256, n \div 256 >>

\* bytemuck::cast_slice of f32 values: their bytes, element after element
cast_slice_f32(xs) ==
    [i \in 1..(4 * Len(xs)) |-> F32ToLeBytes(xs[((i - 1) \div 4) + 1])[((i - 1) % 4) + 1]]

\* bytemuck::cast_slice of u16 values
cast_slice_u16(xs) ==
    [i \in 1..(2 * Len(xs)) |-> U16ToLeBytes(xs[((i - 1) \div 2) + 1])[((i - 1) % 2) + 1]]

----------------------------------------------------------------------------
(* inverse *)

\* inverse has not returned yet
Pending == [tag |-> "Pending"]

None == [tag |-> "None"]

Some(v) == [tag |-> "Some", val |-> v]

\* one of b00 .. b11: t[1] * t[2] - t[3] * t[4]
SubDeterminant(t) == F32Sub(F32Mul(t[1], t[2]), F32Mul(t[3], t[4]))

\* b00 .. b11 of lines 72-83, as the sequence <<b00, ..., b11>>
SubDeterminants(A) ==
    LET a00 == A[1][1]
        a01 == A[1][2]
        a02 == A[1][3]
        a03 == A[1][4]
        a10 == A[2][1]
        a11 == A[2][2]
        a12 == A[2][3]
        a13 == A[2][4]
        a20 == A[3][1]
        a21 == A[3][2]
        a22 == A[3][3]
        a23 == A[3][4]
        a30 == A[4][1]
        a31 == A[4][2]
        a32 == A[4][3]
        a33 == A[4][4]
        t == << <<a00, a11, a01, a10>>,
                <<a00, a12, a02, a10>>,
                <<a00, a13, a03, a10>>,
                <<a01, a12, a02, a11>>,
                <<a01, a13, a03, a11>>,
                <<a02, a13, a03, a12>>,
                <<a20, a31, a21, a30>>,
                <<a20, a32, a22, a30>>,
                <<a20, a33, a23, a30>>,
                <<a21, a32, a22, a31>>,
                <<a21, a33, a23, a31>>,
                <<a22, a33, a23, a32>> >>
    IN  [n \in 1..12 |-> SubDeterminant(t[n])]

\* det of line 85, from b = <<b00, ..., b11>>
Determinant(b) ==
    LET b00 == b[1]
        b01 == b[2]
        b02 == b[3]
        b03 == b[4]
        b04 == b[5]
        b05 == b[6]
        b06 == b[7]
        b07 == b[8]
        b08 == b[9]
        b09 == b[10]
        b10 == b[11]
        b11 == b[12]
    IN  F32Add(F32Sub(F32Add(F32Add(F32Sub(F32Mul(b00, b11), F32Mul(b01, b10)),
                                    F32Mul(b02, b09)),
                             F32Mul(b03, b08)),
                      F32Mul(b04, b07)),
               F32Mul(b05, b06))

\* IsSingular with a threshold (|det| < 2^-20) in place of the exact test
IsSingularEps(det) ==
    det.k = "fin" /\ (det.m = 0 \/ BitLen(det.m) + det.e <= -20)

\* the test of line 87
IsSingular(det) == F32Eq(det, F32Zero(0))

\* one entry of out, lines 93-108: (t[1] * t[2] - t[3] * t[4] + t[5] * t[6]) * det
\* when t[7], and (t[1] * t[2] - t[3] * t[4] - t[5] * t[6]) * det otherwise
Cofactor(t, det) ==
    F32Mul(F32Add(F32Sub(F32Mul(t[1], t[2]), F32Mul(t[3], t[4])),
                  IF t[7] THEN F32Mul(t[5], t[6]) ELSE F32Neg(F32Mul(t[5], t[6]))),
           det)

\* ScaledCofactors with a10 for a11 in out[0][0]
ScaledCofactorsTypo(A, b, det) ==
    LET a00 == A[1][1]
        a01 == A[1][2]
        a02 == A[1][3]
        a03 == A[1][4]
        a10 == A[2][1]
        a11 == A[2][2]
        a12 == A[2][3]
        a13 == A[2][4]
        a20 == A[3][1]
        a21 == A[3][2]
        a22 == A[3][3]
        a23 == A[3][4]
        a30 == A[4][1]
        a31 == A[4][2]
        a32 == A[4][3]
        a33 == A[4][4]
        b00 == b[1]
        b01 == b[2]
        b02 == b[3]
        b03 == b[4]
        b04 == b[5]
        b05 == b[6]
        b06 == b[7]
        b07 == b[8]
        b08 == b[9]
        b09 == b[10]
        b10 == b[11]
        b11 == b[12]
        t == << << <<a10, b11, a12, b10, a13, b09, TRUE>>,
                   <<a02, b10, a01, b11, a03, b09, FALSE>>,
                   <<a31, b05, a32, b04, a33, b03, TRUE>>,
                   <<a22, b04, a21, b05, a23, b03, FALSE>> >>,
                << <<a12, b08, a10, b11, a13, b07, FALSE>>,
                   <<a00, b11, a02, b08, a03, b07, TRUE>>,
                   <<a32, b02, a30, b05, a33, b01, FALSE>>,
                   <<a20, b05, a22, b02, a23, b01, TRUE>> >>,
                << <<a10, b10, a11, b08, a13, b06, TRUE>>,
                   <<a01, b08, a00, b10, a03, b06, FALSE>>,
                   <<a30, b04, a31, b02, a33, b00, TRUE>>,
                   <<a21, b02, a20, b04, a23, b00, FALSE>> >>,
                << <<a11, b07, a10, b09, a12, b06, FALSE>>,
                   <<a00, b09, a01, b07, a02, b06, TRUE>>,
                   <<a31, b01, a30, b03, a32, b00, FALSE>>,
                   <<a20, b03, a21, b01, a22, b00, TRUE>> >> >>
    IN  [i \in 1..4 |-> [j \in 1..4 |-> Cofactor(t[i][j], det)]]

\* out of lines 93-108, from a, b and det = 1.0 / det (line 91)
ScaledCofactors(A, b, det) ==
    LET a00 == A[1][1]
        a01 == A[1][2]
        a02 == A[1][3]
        a03 == A[1][4]
        a10 == A[2][1]
        a11 == A[2][2]
        a12 == A[2][3]
        a13 == A[2][4]
        a20 == A[3][1]
        a21 == A[3][2]
        a22 == A[3][3]
        a23 == A[3][4]
        a30 == A[4][1]
        a31 == A[4][2]
        a32 == A[4][3]
        a33 == A[4][4]
        b00 == b[1]
        b01 == b[2]
        b02 == b[3]
        b03 == b[4]
        b04 == b[5]
        b05 == b[6]
        b06 == b[7]
        b07 == b[8]
        b08 == b[9]
        b09 == b[10]
        b10 == b[11]
        b11 == b[12]
        t == << << <<a11, b11, a12, b10, a13, b09, TRUE>>,
                   <<a02, b10, a01, b11, a03, b09, FALSE>>,
                   <<a31, b05, a32, b04, a33, b03, TRUE>>,
                   <<a22, b04, a21, b05, a23, b03, FALSE>> >>,
                << <<a12, b08, a10, b11, a13, b07, FALSE>>,
                   <<a00, b11, a02, b08, a03, b07, TRUE>>,
                   <<a32, b02, a30, b05, a33, b01, FALSE>>,
                   <<a20, b05, a22, b02, a23, b01, TRUE>> >>,
                << <<a10, b10, a11, b08, a13, b06, TRUE>>,
                   <<a01, b08, a00, b10, a03, b06, FALSE>>,
                   <<a30, b04, a31, b02, a33, b00, TRUE>>,
                   <<a21, b02, a20, b04, a23, b00, FALSE>> >>,
                << <<a11, b07, a10, b09, a12, b06, FALSE>>,
                   <<a00, b09, a01, b07, a02, b06, TRUE>>,
                   <<a31, b01, a30, b03, a32, b00, FALSE>>,
                   <<a20, b03, a21, b01, a22, b00, TRUE>> >> >>
    IN  [i \in 1..4 |-> [j \in 1..4 |-> Cofactor(t[i][j], det)]]

\* inverse, lines 54-111
inverse(A) ==
    LET b   == SubDeterminants(A)
        det == Determinant(b)
    IN  IF IsSingular(det) THEN None
        ELSE Some(ScaledCofactors(A, b, F32Div(F32FromInt(1), det)))

----------------------------------------------------------------------------
(* The constants of from_image, lines 177-226 *)

\* line 217 and line 218: decimal literals read as f32
bitmap_rotate == F32Literal(<<9, 9, 9, 8, 4, 7, 6, 9, 5, 1, 5, 6, 3, 9, 1, 3>>)

bitmap_scale == F32Literal(<<0, 1, 7, 4, 5, 2, 4, 0, 6, 4, 3, 7, 2, 8, 3, 3, 7, 6>>)

F32One == F32FromInt(1)

\* lines 221-226
m ==
    << << bitmap_scale, bitmap_rotate, F32Zero(0), F32Zero(0) >>,
       << F32Neg(bitmap_rotate), bitmap_scale, F32Zero(0), F32Zero(0) >>,
       << F32Zero(0), F32Zero(0), F32One, F32Zero(0) >>,
       << F32Zero(0), F32Zero(0), F32Zero(0), F32One >> >>

----------------------------------------------------------------------------
(* Arguments for inverse: integer matrices, one entry replaced, scaled by a *)
(* power of two, and the matrix m of from_image.                            *)

\* the largest magnitude of a replaced entry
MaxEntry == 2

Bases ==
    << << <<1, 0, 0, 0>>, <<0, 1, 0, 0>>, <<0, 0, 1, 0>>, <<0, 0, 0, 1>> >>,
       << <<2, 1, 0, 1>>, <<1, 3, 1, 0>>, <<0, 1, 2, 1>>, <<1, 0, 1, 3>> >>,
       << <<0, 1, 2, -1>>, <<3, 0, 1, 2>>, <<1, -2, 0, 1>>, <<2, 1, -1, 0>> >>,
       << <<28, -27, 5, 0>>, <<3, 11, -4, 7>>, <<-6, 2, 9, -28>>, <<1, -1, 13, 4>> >> >>

\* 0 keeps the integers; -10 and -40 make the products small, 70 makes them overflow
Scales == {0, -10, -40, 70}

Pow2(k) == [k |-> "fin", s |-> 0, m |-> 2^23, e |-> k - 23]

ToF32Matrix(B, k) ==
    [i \in 1..4 |-> [j \in 1..4 |-> F32Mul(F32FromInt(B[i][j]), Pow2(k))]]

Arguments ==
    { ToF32Matrix([Bases[n] EXCEPT ![i][j] = v], k) :
        n \in 1..Len(Bases), i \in 1..4, j \in 1..4, v \in -MaxEntry..MaxEntry, k \in Scales }
    \cup {m}

----------------------------------------------------------------------------
(* Images, encoded bytes and the image decoder *)

\* the largest width and height of the small images
MaxDim == 2

\* the number of construction calls in a behaviour
MaxCalls == 2

\* image::DynamicImage, by its dimensions (line 131)
ScenarioImage == [width |-> 256, height |-> 128]

Images ==
    { [width |-> w, height |-> h] : w \in 1..MaxDim, h \in 1..MaxDim } \cup {ScenarioImage}

\* an encoded image: a two-byte signature, then width and height, two bytes each
Encoded(img) ==
    << 73, 77, img.width \div 256, img.width % 256, img.height \div 256, img.height % 256 >>

ByteInputs ==
    { Encoded(ScenarioImage), Encoded([width |-> 1, height |-> 1]) }
    \cup { << >>, <<73>>, <<73, 77, 0, 0, 0, 1>> }

Ok(v) == [tag |-> "Ok", val |-> v]

Err(e) == [tag |-> "Err", err |-> e]

\* image::load_from_memory (line 120): the decoder's Ok(image) or its error
load_from_memory(bytes) ==
    IF Len(bytes) < 2 \/ bytes[1] # 73 \/ bytes[2] # 77 THEN Err("Unsupported")
    ELSE IF Len(bytes) # 6 THEN Err("Decoding")
    ELSE LET w == bytes[3] * 256 + bytes[4]
             h == bytes[5] * 256 + bytes[6]
         IN  IF w = 0 \/ h = 0 THEN Err("Decoding")
             ELSE Ok([width |-> w, height |-> h])

\* the conversion of the decoder's error by the ? of line 120: anyhow::Error::from
AnyhowFrom(e) == [anyhow |-> TRUE, source |-> e]

\* img.to_rgba8() (line 130): the RGBA8 pixel buffer, by its size in bytes
to_rgba8(img) == [width |-> img.width, height |-> img.height, len |-> 4 * img.width * img.height]

\* NonZeroU32::new (lines 160-161)
NonZeroU32_new(n) == IF n = 0 THEN None ELSE Some(n)

----------------------------------------------------------------------------
(* from_image, lines 124-252 *)

\* lines 133-137
Extent3d(dimensions) ==
    [width |-> dimensions[1], height |-> dimensions[2], depth_or_array_layers |-> 1]

\* lines 139-148
TextureDescriptor(label, size) ==
    [label |-> label,
     size |-> size,
     mip_level_count |-> 1,
     sample_count |-> 1,
     dimension |-> "D2",
     format |-> "Rgba8UnormSrgb",
     usage |-> {"TEXTURE_BINDING", "COPY_DST"},
     view_formats |-> << >>]

\* ImageDataLayout with bytes_per_row rounded up to a multiple of 256
ImageDataLayoutPadded(dimensions) ==
    [offset |-> 0,
     bytes_per_row |-> NonZeroU32_new(((4 * dimensions[1] + 255) \div 256) * 256),
     rows_per_image |-> NonZeroU32_new(dimensions[2])]

\* lines 158-162
ImageDataLayout(dimensions) ==
    [offset |-> 0,
     bytes_per_row |-> NonZeroU32_new(4 * dimensions[1]),
     rows_per_image |-> NonZeroU32_new(dimensions[2])]

\* lines 167-175
SamplerDescriptor ==
    [address_mode_u |-> "Repeat",
     address_mode_v |-> "Repeat",
     address_mode_w |-> "Repeat",
     mag_filter |-> "Linear",
     min_filter |-> "Linear",
     mipmap_filter |-> "Linear"]

\* lines 177-203: each Vertex as position followed by tex_coords (repr(C))
vertices ==
    LET x == F32FromInt(640)
        y == F32FromInt(360)
        O == F32Zero(0)
    IN  << [position |-> <<O, O, O>>, tex_coords |-> <<O, O>>],
           [position |-> <<x, O, O>>, tex_coords |-> <<F32One, O>>],
           [position |-> <<x, y, O>>, tex_coords |-> <<F32One, F32One>>],
           [position |-> <<O, y, O>>, tex_coords |-> <<O, F32One>>] >>

\* indices with 4 for the last 3
indicesOutOfRange == <<1, 0, 2, 0, 2, 4>>

\* line 204
indices == <<1, 0, 2, 0, 2, 3>>

\* the f32 values of a slice of Vertex, in memory order
VertexFloats(vs) ==
    [i \in 1..(5 * Len(vs)) |->
        (vs[((i - 1) \div 5) + 1].position \o vs[((i - 1) \div 5) + 1].tex_coords)[((i - 1) % 5) + 1]]

\* lines 231-236
transform ==
    << << F32One, F32Zero(0), F32Zero(0), F32Zero(0) >>,
       << F32Neg(F32Zero(0)), F32One, F32Zero(0), F32Zero(0) >>,
       << F32Zero(0), F32Zero(0), F32One, F32Zero(0) >>,
       << F32Zero(0), F32Zero(0), F32Zero(0), F32One >> >>

Rows(M) == M[1] \o M[2] \o M[3] \o M[4]

\* TextureTransform with image_dimension as the first field
TextureTransformDimensionFirst(t, bm, ibm, dim) == dim \o Rows(t) \o Rows(bm) \o Rows(ibm)

\* the 52 f32 values of a TextureTransform, in field order (lines 23-30)
TextureTransform(t, bm, ibm, dim) == Rows(t) \o Rows(bm) \o Rows(ibm) \o dim

\* line 239, with image_width and image_height of lines 180-181
image_dimension(dimensions) ==
    << F32FromInt(dimensions[1]), F32FromInt(dimensions[2]), F32Zero(0), F32One >>

\* Handles with the same six handles whatever next is
HandlesReused(next) ==
    [texture |-> 0, view |-> 1, sampler |-> 2,
     vertex_buffer |-> 3, index_buffer |-> 4, uniform_buffer |-> 5]

\* the handles the device returns for the resources of one call, the first being next
Handles(next) ==
    [texture |-> next, view |-> next + 1, sampler |-> next + 2,
     vertex_buffer |-> next + 3, index_buffer |-> next + 4, uniform_buffer |-> next + 5]

\* the operations of lines 139-215, in the order issued
OpsBeforeUniform(h, img, label) ==
    LET rgba       == to_rgba8(img)
        dimensions == <<img.width, img.height>>
        size       == Extent3d(dimensions)
    IN  << [op |-> "create_texture", id |-> h.texture, desc |-> TextureDescriptor(label, size)],
           [op |-> "write_texture",
            texture |-> [aspect |-> "All", texture |-> h.texture, mip_level |-> 0,
                         origin |-> <<0, 0, 0>>],
            data_len |-> rgba.len,
            layout |-> ImageDataLayout(dimensions),
            size |-> size],
           [op |-> "create_view", id |-> h.view, texture |-> h.texture],
           [op |-> "create_sampler", id |-> h.sampler, desc |-> SamplerDescriptor],
           [op |-> "create_buffer_init", id |-> h.vertex_buffer,
            desc |-> [label |-> Some("Vertex Buffer"),
                      contents |-> cast_slice_f32(VertexFloats(vertices)),
                      usage |-> {"VERTEX"}]],
           [op |-> "create_buffer_init", id |-> h.index_buffer,
            desc |-> [label |-> Some("Index Buffer"),
                      contents |-> cast_slice_u16(indices),
                      usage |-> {"INDEX"}]] >>

\* lines 228-242, for an inverse that is Some
UniformOp(h, img, inv) ==
    [op |-> "create_buffer_init", id |-> h.uniform_buffer,
     desc |-> [label |-> Some("Texture transform uniform buffer"),
               contents |-> cast_slice_f32(
                   TextureTransform(transform, bitmap, inv.val,
                                    image_dimension(<<img.width, img.height>>))),
               usage |-> {"UNIFORM", "COPY_DST"}]]

\* the locals dropped when line 238 panics, last declared first
DropOps(h) ==
    << [op |-> "drop", id |-> h.index_buffer],
       [op |-> "drop", id |-> h.vertex_buffer],
       [op |-> "drop", id |-> h.sampler],
       [op |-> "drop", id |-> h.view],
       [op |-> "drop", id |-> h.texture] >>

\* the err of a call that returned no error
NoError == [anyhow |-> FALSE, source |-> ""]

\* one construction call: its arguments, how it ended ("Ok", "Err" or "Panic"), the
\* error or the position in bundles of the bundle it returned, and the position in
\* ops of its first operation
CallRecord(fn, bytes, img, outcome, err, bundle, first) ==
    [fn |-> fn, bytes |-> bytes, img |-> img, outcome |-> outcome, err |-> err,
     bundle |-> bundle, first |-> first]

\* Texture::from_image; fn and bytes name the public call it serves
from_image(fn, bytes, img, label) ==
    \E inv \in {inverse(bitmap)} :
    LET h == Handles(nextId)
    IN  IF inv = None
        THEN \* inverse(m).unwrap() panics: the call unwinds
             /\ ops' = ops \o OpsBeforeUniform(h, img, label) \o DropOps(h)
             /\ nextId' = nextId + 5
             /\ calls' = Append(calls, CallRecord(fn, bytes, img, "Panic", NoError, 0, Len(ops) + 1))
             /\ UNCHANGED bundles
        ELSE /\ ops' = ops \o OpsBeforeUniform(h, img, label) \o <<UniformOp(h, img, inv)>>
             /\ nextId' = nextId + 6
             /\ bundles' = Append(bundles, h)
             /\ calls' = Append(calls, CallRecord(fn, bytes, img, "Ok", NoError,
                                                  Len(bundles) + 1, Len(ops) + 1))

NoImage == [width |-> 0, height |-> 0]

\* from_bytes creating a sampler on the device before it looks at the decoder's result
from_bytes_device_first(bytes, label) ==
    LET r == load_from_memory(bytes)
    IN  IF r.tag = "Err"
        THEN /\ calls' = Append(calls, CallRecord("from_bytes", bytes, NoImage, "Err",
                                                  AnyhowFrom(r.err), 0, Len(ops) + 1))
             /\ ops' = Append(ops, [op |-> "create_sampler", id |-> nextId, desc |-> SamplerDescriptor])
             /\ nextId' = nextId + 1
             /\ UNCHANGED bundles
        ELSE from_image("from_bytes", bytes, r.val, Some(label))

\* Texture::from_bytes, lines 114-122
from_bytes(bytes, label) ==
    LET r == load_from_memory(bytes)
    IN  IF r.tag = "Err"
        THEN /\ calls' = Append(calls, CallRecord("from_bytes", bytes, NoImage, "Err",
                                                  AnyhowFrom(r.err), 0, Len(ops) + 1))
             /\ UNCHANGED <<ops, nextId, bundles>>
        ELSE from_image("from_bytes", bytes, r.val, Some(label))

----------------------------------------------------------------------------
(* Construction calls on one device and queue *)

InitDevice ==
    /\ a = m
    /\ out = Pending
    /\ nextId = 0
    /\ ops = << >>
    /\ calls = << >>
    /\ bundles = << >>

Init == InitDevice /\ bitmap = m

CallFromImage ==
    /\ Len(calls) < MaxCalls
    /\ \E img \in Images : from_image("from_image", << >>, img, None)
    /\ UNCHANGED <<a, out, bitmap>>

CallFromBytes ==
    /\ Len(calls) < MaxCalls
    /\ \E bytes \in ByteInputs : from_bytes(bytes, "image")
    /\ UNCHANGED <<a, out, bitmap>>

Next == CallFromImage \/ CallFromBytes

Spec == Init /\ [][Next]_vars

\* lines 228-242 for other values of m than that of lines 217-226: the m of the
\* source, the m of the constants commented out in lines 219-220, and m with
\* bitmap_scale and bitmap_rotate both 0.0, or with all sixteen entries 0.0
MOf(scale, rotate) ==
    << << scale, rotate, F32Zero(0), F32Zero(0) >>,
       << F32Neg(rotate), scale, F32Zero(0), F32Zero(0) >>,
       << F32Zero(0), F32Zero(0), F32One, F32Zero(0) >>,
       << F32Zero(0), F32Zero(0), F32Zero(0), F32One >> >>

Transforms ==
    { m,
      MOf(F32Literal(<<7, 0, 7, 1, 0, 6, 7, 8, 1, 1, 8, 6, 5, 4, 7, 6>>),
          F32Literal(<<7, 0, 7, 1, 0, 6, 7, 8, 1, 1, 8, 6, 5, 4, 7, 6>>)),
      MOf(F32Zero(0), F32Zero(0)),
      [i \in 1..4 |-> [j \in 1..4 |-> F32Zero(0)]] }

InitAnyTransform == InitDevice /\ bitmap \in Transforms

SpecAnyTransform == InitAnyTransform /\ [][Next]_vars

----------------------------------------------------------------------------
(* Calls of inverse on its own *)

InitInverse ==
    /\ a \in Arguments
    /\ out = Pending
    /\ bitmap = m
    /\ nextId = 0
    /\ ops = << >>
    /\ calls = << >>
    /\ bundles = << >>

\* a call inverse(a)
Invert ==
    /\ out = Pending
    /\ out' = inverse(a)
    /\ UNCHANGED <<a, bitmap, nextId, ops, calls, bundles>>

NextInverse == Invert

SpecInverse == InitInverse /\ [][NextInverse]_vars

----------------------------------------------------------------------------
(* Exact integer reference for the properties of inverse *)

Abs(n) == IF n < 0 THEN -n ELSE n

\* x is an integer of magnitude at most K (K < 2^24)
IsSmallInt(x, K) ==
    /\ x.k = "fin"
    /\ \/ x.m = 0
       \/ x.e >= 0 /\ x.e <= 6 /\ x.m * 2^x.e <= K
       \/ x.e < 0 /\ x.e >= -23 /\ x.m % 2^(-x.e) = 0 /\ x.m \div 2^(-x.e) <= K

\* the value of such an x
F32ToInt(x) ==
    LET n == IF x.m = 0 THEN 0
             ELSE IF x.e >= 0 THEN x.m * 2^x.e ELSE x.m \div 2^(-x.e)
    IN  IF x.s = 1 THEN -n ELSE n

IsIntMatrix(A, K) == \A i \in 1..4 : \A j \in 1..4 : IsSmallInt(A[i][j], K)

IntMatrix(A) == [i \in 1..4 |-> [j \in 1..4 |-> F32ToInt(A[i][j])]]

\* M without row i and column j
Minor(M, i, j) ==
    [r \in 1..(Len(M) - 1) |->
        [c \in 1..(Len(M) - 1) |->
            M[IF r < i THEN r ELSE r + 1][IF c < j THEN c ELSE c + 1]]]

RECURSIVE SumTo(_, _)
SumTo(f, n) == IF n = 0 THEN 0 ELSE f[n] + SumTo(f, n - 1)

\* the determinant, by expansion along the first row
RECURSIVE IntDet(_)
IntDet(M) ==
    IF Len(M) = 1 THEN M[1][1]
    ELSE SumTo([j \in 1..Len(M) |->
                   (IF j % 2 = 1 THEN 1 ELSE -1) * M[1][j] * IntDet(Minor(M, 1, j))],
               Len(M))

\* the adjugate: the transpose of the matrix of signed cofactors
Adjugate(M) ==
    [i \in 1..4 |-> [j \in 1..4 |->
        (IF (i + j) % 2 = 0 THEN 1 ELSE -1) * IntDet(Minor(M, j, i))]]

IntProduct(M, N) ==
    [i \in 1..4 |-> [j \in 1..4 |-> SumTo([k \in 1..4 |-> M[i][k] * N[k][j]], 4)]]

\* A is 2^k times an integer matrix of non-zero determinant, for a k of Scales
NonSingular(A) ==
    \E k \in Scales :
        LET B == [i \in 1..4 |-> [j \in 1..4 |-> F32Mul(A[i][j], Pow2(-k))]]
        IN  IsIntMatrix(B, 30) /\ IntDet(IntMatrix(B)) # 0

AllFinite(R) == \A i \in 1..4 : \A j \in 1..4 : R[i][j].k = "fin"

\* floor(|x| * 2^12), for a finite x with |x| < 2^18
Fixed12(x) ==
    IF x.m = 0 THEN 0
    ELSE IF x.e + 12 >= 0 THEN x.m * 2^(x.e + 12)
    ELSE IF -(x.e + 12) >= 24 THEN 0
    ELSE x.m \div 2^(-(x.e + 12))

\* floor((|x| * 2^12 - Fixed12(x)) * 2^24): the next 24 bits of |x|
Fixed36(x) ==
    IF x.m = 0 \/ x.e + 12 >= 0 THEN 0
    ELSE LET sh  == -(x.e + 12)
             rem == IF sh >= 24 THEN x.m ELSE x.m % 2^sh
         IN  IF x.e + 36 >= 0 THEN rem * 2^(x.e + 36)
             ELSE IF -(x.e + 36) >= 31 THEN 0
             ELSE rem \div 2^(-(x.e + 36))

Sign(x) == IF x.s = 1 THEN -1 ELSE 1

\* entry (i, j) of M * R - I for an integer M and a finite R, in units of 2^-36:
\* it lies within err of x (x = 2^30 stands for any magnitude of 2^25 or more)
Residual(M, R, i, j) ==
    LET u  == SumTo([k \in 1..4 |-> M[i][k] * Sign(R[k][j]) * Fixed12(R[k][j])], 4)
                  - (IF i = j THEN 4096 ELSE 0)
        v  == SumTo([k \in 1..4 |-> M[i][k] * Sign(R[k][j]) * Fixed36(R[k][j])], 4)
        u2 == u + (v \div 2^24)
        v2 == v % 2^24
    IN  [x   |-> IF Abs(u2) <= 1 THEN u2 * 2^24 + v2 ELSE 2^30,
         err |-> SumTo([k \in 1..4 |-> Abs(M[i][k])], 4)]

Magnitude(x) == IF x.k = "fin" /\ x.m # 0 THEN BitLen(x.m) + x.e ELSE 0

\* M * R can be evaluated in fixed point: every |R[i][j]| is below 2^6
Evaluable(R) ==
    /\ AllFinite(R)
    /\ \A i \in 1..4 : \A j \in 1..4 : Magnitude(R[i][j]) <= 6

\* floor(1e-5 * 2^36) = 687194
\* |M * R - I| <= 1e-5 in every entry, for certain
WithinTolerance(M, R) ==
    /\ Evaluable(R)
    /\ \A i \in 1..4 : \A j \in 1..4 :
        LET r == Residual(M, R, i, j)
        IN  Abs(r.x) + r.err <= 687194

\* |M * R - I| > 1e-5 in some entry, for certain; A is the f32 matrix
OutOfTolerance(A, R) ==
    \/ ~AllFinite(R)
    \/ \A i \in 1..4 : \A j \in 1..4 : R[i][j].m = 0
    \/ /\ IsIntMatrix(A, 28)
       /\ Evaluable(R)
       /\ \E i \in 1..4 : \E j \in 1..4 :
            LET r == Residual(IntMatrix(A), R, i, j)
            IN  Abs(r.x) - r.err > 687194

\* sum over k of |M[i][k] * adj(M)[k][j]| is at most 64 * |det M|, for all i and j
WellConditioned(M) ==
    \A i \in 1..4 : \A j \in 1..4 :
        SumTo([k \in 1..4 |-> Abs(M[i][k] * Adjugate(M)[k][j])], 4) <= 64 * Abs(IntDet(M))

\* x * (1 / d) as inverse computes it for an exact cofactor sum x and determinant d
ScaledEntry(x, d) == F32Mul(F32FromInt(x), F32Div(F32One, F32FromInt(d)))

----------------------------------------------------------------------------
(* Properties of inverse, under SpecInverse *)

Returned == out # Pending

HasZeroRow(A) == \E i \in 1..4 : \A j \in 1..4 : IsZero(A[i][j])

AllEntriesFinite(A) == \A i \in 1..4 : \A j \in 1..4 : A[i][j].k = "fin"

ComputedDetIsZero(A) == F32Eq(Determinant(SubDeterminants(A)), F32Zero(0))

\* C3 as stated: inverse returns None for every matrix with an all-zero row, and
\* returns None exactly when the computed determinant equals 0, Some otherwise.
C3_ZeroRowAlwaysNone ==
    Returned =>
        /\ HasZeroRow(a) => out = None
        /\ out = None <=> ComputedDetIsZero(a)
        /\ out # None => out.tag = "Some"

\* C3 amended: inverse returns None for every matrix of finite entries with an
\* all-zero row whose twelve subdeterminants b00..b11 are finite (no product of two
\* entries overflows); and it returns None exactly when the computed determinant
\* equals 0, Some(matrix) otherwise (a NaN determinant is not equal to 0).
C3_ZeroRowNoneUnlessOverflow ==
    Returned =>
        /\ ( /\ HasZeroRow(a)
             /\ AllEntriesFinite(a)
             /\ \A n \in 1..12 : SubDeterminants(a)[n].k = "fin" ) => out = None
        /\ out = None <=> ComputedDetIsZero(a)
        /\ out # None => out.tag = "Some" /\ DOMAIN out.val = 1..4

\* a matrix with an all-zero row and non-zero entries elsewhere, answered None
C3_Witness ==
    /\ out = None
    /\ HasZeroRow(a)
    /\ \E i \in 1..4 : \E j \in 1..4 : ~IsZero(a[i][j])

\* the matrix the claim says inverse(m) is
KnownInverseOfM ==
    << << bitmap_scale, F32Neg(bitmap_rotate), F32Zero(0), F32Zero(0) >>,
       << bitmap_rotate, bitmap_scale, F32Zero(0), F32Zero(0) >>,
       << F32Zero(0), F32Zero(0), F32One, F32Zero(0) >>,
       << F32Zero(0), F32Zero(0), F32Zero(0), F32One >> >>

\* C4: for the m of from_image, inverse(m) is Some of [[s, -c, 0, 0], [c, s, 0, 0],
\* [0, 0, 1, 0], [0, 0, 0, 1]]: the transpose of the 2x2 block divided by
\* s*s + c*c, which is 1 in f32.
C4_KnownInverse ==
    (Returned /\ a = m) =>
        /\ out.tag = "Some"
        /\ \A i \in 1..4 : \A j \in 1..4 : F32Eq(out.val[i][j], KnownInverseOfM[i][j])
        /\ F32Add(F32Mul(bitmap_scale, bitmap_scale),
                  F32Mul(bitmap_rotate, bitmap_rotate)) = F32One

C4_Witness == Returned /\ a = m /\ out.tag = "Some"

IdentityMatrix == ToF32Matrix(Bases[1], 0)

\* C5: inverse of the 4x4 identity is Some(identity), every entry exactly equal.
C5_IdentityFixedPoint ==
    (Returned /\ a = IdentityMatrix) => out = Some(IdentityMatrix)

C5_Witness == Returned /\ a = IdentityMatrix /\ out.tag = "Some"

----------------------------------------------------------------------------
(* Properties of the construction calls, under Spec and SpecAnyTransform *)

\* the operations issued by call n
CallOps(n) ==
    SubSeq(ops, calls[n].first,
           IF n < Len(calls) THEN calls[n + 1].first - 1 ELSE Len(ops))

\* call n got as far as from_image: it was given an image, or its bytes decoded
ReachedFromImage(n) ==
    calls[n].fn = "from_image" \/ load_from_memory(calls[n].bytes).tag = "Ok"

CreatesUniformBuffer(o) ==
    o.op = "create_buffer_init" /\ "UNIFORM" \in o.desc.usage

C6_DecodeFailure ==
    \A n \in 1..Len(calls) :
        (calls[n].fn = "from_bytes" /\ load_from_memory(calls[n].bytes).tag = "Err") =>
            /\ calls[n].outcome = "Err"
            /\ calls[n].err.source = load_from_memory(calls[n].bytes).err
            /\ calls[n].bundle = 0
            /\ CallOps(n) = << >>
            /\ Len(bundles) = Cardinality({k \in 1..Len(calls) : calls[k].outcome = "Ok"})

\* a failed decode after a call that issued operations
C6_Witness ==
    \E n \in 2..Len(calls) :
        /\ calls[n].fn = "from_bytes"
        /\ load_from_memory(calls[n].bytes).tag = "Err"
        /\ calls[n - 1].outcome = "Ok"

\* f32::from_le_bytes
F32FromLeBytes(b) ==
    LET sign   == b[4] \div 128
        biased == (b[4] % 128) * 2 + (b[3] \div 128)
        frac   == (b[3] % 128) * 65536 + b[2] * 256 + b[1]
    IN  IF biased = 255 THEN (IF frac = 0 THEN F32Inf(sign) ELSE F32NaN)
        ELSE IF biased = 0
        THEN (IF frac = 0 THEN F32Zero(sign)
              ELSE [k |-> "fin", s |-> sign, m |-> frac, e |-> -149])
        ELSE [k |-> "fin", s |-> sign, m |-> frac + 2^23, e |-> biased - 150]

\* the f32 values read back from a buffer's bytes
ReadFloats(bytes) ==
    [i \in 1..(Len(bytes) \div 4) |-> F32FromLeBytes(SubSeq(bytes, 4 * i - 3, 4 * i))]

\* the u16 values read back from a buffer's bytes
ReadU16s(bytes) ==
    [i \in 1..(Len(bytes) \div 2) |-> bytes[2 * i - 1] + 256 * bytes[2 * i]]

\* the operation of call n that created the buffer of handle id
BufferOp(n, id) ==
    CHOOSE o \in {CallOps(n)[k] : k \in 1..Len(CallOps(n))} :
        o.op = "create_buffer_init" /\ o.id = id

\* C7: after a successful from_image on a w x h image the uniform buffer holds 208
\* bytes, 52 floats: the identity, then m, then inverse(m), then (w, h, 0, 1), so
\* that bytes 192..208 are (w, h, 0, 1); (256.0, 128.0, 0.0, 1.0) for 256 x 128.
C7_UniformPayload ==
    \A n \in 1..Len(calls) :
        calls[n].outcome = "Ok" =>
            LET bytes == BufferOp(n, bundles[calls[n].bundle].uniform_buffer).desc.contents
                f     == ReadFloats(bytes)
                w     == calls[n].img.width
                h     == calls[n].img.height
            IN  /\ Len(bytes) = 208
                /\ Len(f) = 52
                /\ \A i \in 1..4 : \A j \in 1..4 :
                    /\ F32Eq(f[4 * (i - 1) + j], IF i = j THEN F32One ELSE F32Zero(0))
                    /\ f[16 + 4 * (i - 1) + j] = m[i][j]
                    /\ F32Eq(f[32 + 4 * (i - 1) + j], KnownInverseOfM[i][j])
                /\ <<f[49], f[50], f[51], f[52]>>
                       = <<F32FromInt(w), F32FromInt(h), F32Zero(0), F32One>>
                /\ (w = 256 /\ h = 128) =>
                       SubSeq(bytes, 193, 208)
                          = <<0, 0, 128, 67, 0, 0, 0, 67, 0, 0, 0, 0, 0, 0, 128, 63>>

\* a bundle built from the 256 x 128 image
C7_Witness ==
    \E n \in 1..Len(calls) :
        calls[n].outcome = "Ok" /\ calls[n].img = ScenarioImage

QuadFloats ==
    << 0, 0, 0, 0, 0,   640, 0, 0, 1, 0,   640, 360, 0, 1, 1,   0, 360, 0, 0, 1 >>

\* C9: every bundle's index buffer is the six u16 values [1, 0, 2, 0, 2, 3], each
\* an index into the vertex buffer, which holds the four vertices of QuadFloats,
\* whatever the image's dimensions.
C9_Geometry ==
    \A n \in 1..Len(calls) :
        calls[n].outcome = "Ok" =>
            LET ib == BufferOp(n, bundles[calls[n].bundle].index_buffer).desc.contents
                vb == BufferOp(n, bundles[calls[n].bundle].vertex_buffer).desc.contents
                v  == ReadFloats(vb)
            IN  /\ ib = <<1, 0, 0, 0, 2, 0, 0, 0, 2, 0, 3, 0>>
                /\ ReadU16s(ib) = <<1, 0, 2, 0, 2, 3>>
                /\ Len(vb) = 4 * 20
                /\ \A k \in 1..Len(ReadU16s(ib)) : ReadU16s(ib)[k] \in 0..((Len(vb) \div 20) - 1)
                /\ \A k \in 1..20 : v[k] = F32FromInt(QuadFloats[k])

\* two bundles built from images of different dimensions
C9_Witness ==
    \E i \in 1..Len(calls) : \E j \in 1..Len(calls) :
        /\ calls[i].outcome = "Ok"
        /\ calls[j].outcome = "Ok"
        /\ calls[i].img # calls[j].img

\* the six handles of a bundle
BundleHandles(b) ==
    {b.texture, b.view, b.sampler, b.vertex_buffer, b.index_buffer, b.uniform_buffer}

\* the handles the operations o create
Created(o) ==
    {o[k].id : k \in {i \in 1..Len(o) : o[i].op \in {"create_texture", "create_view",
                                                      "create_sampler", "create_buffer_init"}}}

\* C10: each successful call issues, one after the other, create_texture,
\* write_texture to that texture, create_view of it, create_sampler and three
\* create_buffer_init (vertex, index, uniform), six distinct resources, and returns
\* a bundle of exactly those six; no resource created by one call is in the
\* bundle of another.
C10_ExclusiveOwnership ==
    \A n \in 1..Len(calls) :
        calls[n].outcome = "Ok" =>
            LET o == CallOps(n)
                b == bundles[calls[n].bundle]
            IN  /\ Len(o) = 7
                /\ [k \in 1..7 |-> o[k].op]
                       = <<"create_texture", "write_texture", "create_view", "create_sampler",
                           "create_buffer_init", "create_buffer_init", "create_buffer_init">>
                /\ o[2].texture.texture = o[1].id
                /\ o[3].texture = o[1].id
                /\ <<o[5].desc.usage, o[6].desc.usage, o[7].desc.usage>>
                       = <<{"VERTEX"}, {"INDEX"}, {"UNIFORM", "COPY_DST"}>>
                /\ b = [texture |-> o[1].id, view |-> o[3].id, sampler |-> o[4].id,
                        vertex_buffer |-> o[5].id, index_buffer |-> o[6].id,
                        uniform_buffer |-> o[7].id]
                /\ Cardinality(BundleHandles(b)) = 6
                /\ Created(o) = BundleHandles(b)
                /\ \A k \in 1..Len(calls) :
                       k # n => Created(CallOps(k)) \cap BundleHandles(b) = {}

\* two bundles returned by two calls
C10_Witness ==
    /\ Len(bundles) = 2
    /\ \E i \in 1..Len(calls) : \E j \in 1..Len(calls) :
           i # j /\ calls[i].outcome = "Ok" /\ calls[j].outcome = "Ok"

====
